---- MODULE Spec2Model ----
(***************************************************************************)
(* A model of the bidirectional streaming relay of                         *)
(* 06-bi-directional-streaming/sonic/websocket/server.py:                  *)
(*   - split_large_event, the chunking of oversized events (SpecSplit);    *)
(*   - the credential refresh loop and its startup/shutdown (SpecCred);    *)
(*   - websocket_endpoint and forward_responses, the per-connection        *)
(*     handler and its forwarding task (Spec);                             *)
(* and of the echo server of                                               *)
(* 06-bi-directional-streaming/echo/websocket/websocket_echo_agent.py      *)
(* (SpecEcho).                                                             *)
(* The backend session class S2sSessionManager is imported by server.py    *)
(* and is not part of the sources; its operations follow section 4.3 of    *)
(* the specification.                                                      *)
(***************************************************************************)
EXTENDS Integers, Sequences, FiniteSets, TLC

VARIABLES
    \* ---- split_large_event, checked as a pure function
    response,        \* the event handed to split_large_event
    max_size,        \* its max_size argument
    split_result,    \* what the call produced (NoResult before the call)
    \* ---- credential refresh
    environ,         \* os.environ: AWS_ACCESS_KEY_ID, AWS_SECRET_ACCESS_KEY, AWS_SESSION_TOKEN
    cred_pc,         \* position of startup_event / refresh_credentials_from_imds
    sleep_for,       \* the argument of the asyncio.sleep the loop is suspended in
    n_fetch,         \* calls of get_credentials_from_imds so far
    imds_result,     \* the result dict of the last call
    last_fetch,      \* outcome of the last call ("none", "ok", "fail", "exc")
    shutdown,        \* shutdown_event has cancelled the task
    \* ---- the connection handler
    pc,              \* position of websocket_endpoint
    stream_manager,  \* local stream_manager: 0 is None, else a bridge id
    forward_task,    \* local forward_task: 0 is None, else a task id
    data,            \* local data: the envelope being processed
    bridges,         \* the S2sSessionManager objects created so far
    tasks,           \* the forward_responses tasks created so far
    client_gone,     \* the client has disconnected
    ws_closed,       \* websocket.close() has been called
    ws_out,          \* frames written to the client, in order
    n_recv,          \* frames received so far
    \* ---- the echo server
    echo_pc,         \* position of the echo server's websocket_endpoint
    echo_inbox,      \* what the client has sent and the server has not yet received
    echo_message,    \* local message / data: the payload in hand
    echo_received,   \* the frames the server has received, in order
    echo_sent,       \* the frames the server has written, in order
    echo_open        \* the client has not closed the connection

splitVars == <<response, max_size, split_result>>
credVars == <<environ, cred_pc, sleep_for, n_fetch, imds_result, last_fetch, shutdown>>
connVars == <<pc, stream_manager, forward_task, data, bridges, tasks,
              client_gone, ws_closed, ws_out, n_recv>>
echoVars == <<echo_pc, echo_inbox, echo_message, echo_received, echo_sent, echo_open>>
vars == <<splitVars, credVars, connVars, echoVars>>

Min(a, b) == IF a <= b THEN a ELSE b
Max(a, b) == IF a >= b THEN a ELSE b

(***************************************************************************)
(* Strings.  A content string is a sequence of segments: [off, len] with   *)
(* off >= 0 is the len characters of the backend's payload text starting   *)
(* at offset off, and off = PadOff is a run of len '=' characters.  Two    *)
(* strings are equal iff their normal forms (adjacent runs merged, empty   *)
(* segments dropped) are equal.                                            *)
(***************************************************************************)
PadOff == 0 - 1

Text(n) == IF n = 0 THEN <<>> ELSE <<[off |-> 0, len |-> n]>>

Pad(n) == IF n = 0 THEN <<>> ELSE <<[off |-> PadOff, len |-> n]>>

RECURSIVE StrLen(_)
StrLen(s) == IF s = <<>> THEN 0 ELSE Head(s).len + StrLen(Tail(s))

\* s + t, in normal form when s and t are
Cat(s, t) ==
    IF s = <<>> THEN t
    ELSE IF t = <<>> THEN s
    ELSE LET a == s[Len(s)]
             b == Head(t)
         IN  IF (a.off = PadOff /\ b.off = PadOff)
                \/ (a.off # PadOff /\ b.off = a.off + a.len)
             THEN SubSeq(s, 1, Len(s) - 1)
                  \o <<[off |-> a.off, len |-> a.len + b.len]>>
                  \o Tail(t)
             ELSE s \o t

\* s[i:j] of a string that is one run of payload text (Python slicing clips at the end)
Slice(s, i, j) ==
    LET n == StrLen(s)
        lo == Min(i, n)
        hi == Min(j, n)
    IN  IF hi <= lo THEN <<>>
        ELSE <<[off |-> Head(s).off + lo, len |-> hi - lo]>>

(***************************************************************************)
(* Events.  An envelope is {"event": {<kind>: {..., "content": "..."}}}.   *)
(* meta is the number of bytes json.dumps gives to everything but the      *)
(* characters of the content string, and width the number of bytes it      *)
(* gives to one payload character: 1 for plain ASCII (all of base64), 6    *)
(* for a character written as a \uXXXX escape.  '=' is one byte.           *)
(***************************************************************************)
RECURSIVE StrBytes(_, _)
StrBytes(s, width) ==
    IF s = <<>> THEN 0
    ELSE (IF Head(s).off = PadOff THEN Head(s).len ELSE Head(s).len * width)
         + StrBytes(Tail(s), width)

\* len(json.dumps(response).encode('utf-8'))
EventSize(e) == e.meta + (IF e.hasContent THEN StrBytes(e.content, e.width) ELSE 0)

NoResult == [status |-> "none", warned |-> FALSE, chunks |-> <<>>]

Returned(seq) == [status |-> "returned", warned |-> FALSE, chunks |-> seq]

NotWarned(seq) == [status |-> "returned", warned |-> FALSE, chunks |-> seq]

Warned(seq) == [status |-> "returned", warned |-> TRUE, chunks |-> seq]

\* range(0, len(content), 0) raises ValueError
Raised == [status |-> "raised", warned |-> FALSE, chunks |-> <<>>]

\* (max_content_size // alignment) * alignment for audioOutput
AlignNone(kind, m) == m

Align(kind, m) == IF kind = "audioOutput" THEN (m \div 4) * 4 ELSE m

\* max_content_size = max_size - overhead - 100
SafetyMargin == 100

MaxContentNoMargin(maxSize, overhead) == maxSize - overhead

MaxContentSize(maxSize, overhead) == maxSize - overhead - SafetyMargin

\* the '=' padding of a chunk whose length is not a multiple of 4
PadNone(kind, chunk) == chunk

PadChunk(kind, chunk) ==
    IF kind = "audioOutput" /\ StrLen(chunk) % 4 # 0
    THEN Cat(chunk, Pad(4 - (StrLen(chunk) % 4)))
    ELSE chunk

\* len(range(0, n, step)) for step > 0
RangeLen(n, step) == (n + step - 1) \div step

\* the chunk for i = k * m in range(0, len(content), m)
ChunkAtReversed(e, m, k, n) ==
    [e EXCEPT !.content = PadChunk(e.kind, Slice(e.content, (n - 1 - k) * m, (n - k) * m))]

ChunkAt(e, m, k, n) ==
    [e EXCEPT !.content = PadChunk(e.kind, Slice(e.content, k * m, (k + 1) * m))]

\* "if event_size <= max_size"
FitsStrictly(size, maxSize) == size < maxSize

FitsIn(size, maxSize) == size <= maxSize

\* split_large_event(response, max_size)
split_large_event(e, maxSize) ==
    IF FitsIn(EventSize(e), maxSize) THEN Returned(<<e>>)
    ELSE IF ~e.hasEvent THEN Returned(<<e>>)
    ELSE IF ~e.hasContent THEN Warned(<<e>>)
    ELSE LET overhead == EventSize([e EXCEPT !.content = <<>>])
             m == Align(e.kind, MaxContentSize(maxSize, overhead))
             n == StrLen(e.content)
         IN  IF m = 0 THEN Raised
             ELSE IF m < 0 THEN Returned(<<>>)
             ELSE Returned([k \in 1..RangeLen(n, m) |->
                               ChunkAt(e, m, k - 1, RangeLen(n, m))])

\* the content fields of a sequence of events, concatenated in order
RECURSIVE ConcatContent(_)
ConcatContent(seq) ==
    IF seq = <<>> THEN <<>>
    ELSE Cat(Head(seq).content, ConcatContent(Tail(seq)))

(***************************************************************************)
(* The inputs of split_large_event.                                        *)
(***************************************************************************)
MaxLenK == 10
MaxMetaK == 6
LenStep == 2470
MetaStep == 1970
MinMeta == 48

Lens == {LenStep * k + r : k \in 0..MaxLenK, r \in 0..3}

Metas == {MetaStep * k + MinMeta + d : k \in 0..MaxMetaK, d \in 0..3}

\* split_large_event's default, and what forward_responses passes
DefaultMaxSize == 16000
ForwardMaxSize == 10000

Kinds == {"audioOutput", "textOutput", "usageEvent"}

\* events one byte under, at, and one byte over each of the two limits
BoundaryInputs ==
    {[hasEvent |-> TRUE, kind |-> k, hasContent |-> TRUE,
      meta |-> MinMeta, content |-> Text(ms - MinMeta + d), width |-> 1] :
        k \in {"audioOutput", "textOutput"},
        ms \in {ForwardMaxSize, DefaultMaxSize}, d \in {0 - 1, 0, 1}}
    \cup
    {[hasEvent |-> TRUE, kind |-> "usageEvent", hasContent |-> FALSE,
      meta |-> ms + d, content |-> <<>>, width |-> 1] :
        ms \in {ForwardMaxSize, DefaultMaxSize}, d \in {0 - 1, 0, 1}}

SplitInputs ==
    {[hasEvent |-> TRUE, kind |-> k, hasContent |-> (k # "usageEvent"),
      meta |-> m, content |-> (IF k = "usageEvent" THEN <<>> ELSE Text(n)), width |-> w] :
        k \in Kinds, m \in Metas, n \in Lens, w \in {1, 6}}
    \cup
    {[hasEvent |-> FALSE, kind |-> "none", hasContent |-> FALSE,
      meta |-> m, content |-> <<>>, width |-> 1] : m \in Metas}
    \cup BoundaryInputs

InitSplitVars ==
    /\ response \in SplitInputs
    /\ max_size \in {ForwardMaxSize, DefaultMaxSize}
    /\ split_result = NoResult

CallSplit ==
    /\ split_result.status = "none"
    /\ split_result' = split_large_event(response, max_size)
    /\ UNCHANGED <<response, max_size, credVars, connVars, echoVars>>

(***************************************************************************)
(* Credentials.  A credential value is a number: 0 is None / not set,      *)
(* StaticCred is a value supplied in the environment before the process    *)
(* starts, and k >= 1 is the value of the k-th bundle the metadata         *)
(* endpoint served.                                                        *)
(***************************************************************************)
None == 0
StaticCred == 0 - 1

MaxFetch == 3

\* seconds until expiration of a served bundle, at the time it is parsed
Expiries == {0 - 600, 0, 359, 360, 361, 2000, 3900, 3901, 43200}

\* what the metadata endpoint answers to one get_credentials_from_imds call
ImdsAnswers ==
    [token : BOOLEAN,
     outcome : {"ok", "role_http_error", "creds_http_error", "request_exception", "bad_json"},
     missing : {"none", "AccessKeyId", "SecretAccessKey", "Token", "Expiration"},
     expires_in : Expiries]

get_imdsv2_token(imds) == IF imds.token THEN "token" ELSE "None"

\* the result dict; v is the value of the bundle served by this call
get_credentials_from_imds(imds, v) ==
    LET method == IF get_imdsv2_token(imds) # "None" THEN "IMDSv2" ELSE "IMDSv1"
        field(name) == IF imds.missing = name THEN None ELSE v
    IN  IF imds.outcome = "ok"
        THEN [success |-> TRUE, method_used |-> method,
              AccessKeyId |-> field("AccessKeyId"),
              SecretAccessKey |-> field("SecretAccessKey"),
              Token |-> field("Token"),
              Expiration |-> [present |-> imds.missing # "Expiration",
                              expires_in |-> imds.expires_in]]
        ELSE [success |-> FALSE, method_used |-> method,
              AccessKeyId |-> None, SecretAccessKey |-> None, Token |-> None,
              Expiration |-> [present |-> FALSE, expires_in |-> 0]]

\* the three os.environ assignments, in order; os.environ[k] = None raises TypeError
\* and leaves the assignments before it in place
SetEnviron(env, creds) ==
    IF creds.AccessKeyId = None THEN [env |-> env, raised |-> TRUE]
    ELSE LET e1 == [env EXCEPT !.AWS_ACCESS_KEY_ID = creds.AccessKeyId]
         IN  IF creds.SecretAccessKey = None THEN [env |-> e1, raised |-> TRUE]
             ELSE LET e2 == [e1 EXCEPT !.AWS_SECRET_ACCESS_KEY = creds.SecretAccessKey]
                  IN  IF creds.Token = None THEN [env |-> e2, raised |-> TRUE]
                      ELSE [env |-> [e2 EXCEPT !.AWS_SESSION_TOKEN = creds.Token],
                            raised |-> FALSE]

\* refresh_interval; an Expiration that does not parse gives the default
RefreshBefore == 300
MinInterval == 60
MaxInterval == 3600
RetryDelay == 300

RefreshIntervalNoFloor(expiration) ==
    IF expiration.present
    THEN Min(expiration.expires_in - RefreshBefore, MaxInterval)
    ELSE MaxInterval

RefreshInterval(expiration) ==
    IF expiration.present
    THEN Min(Max(expiration.expires_in - RefreshBefore, MinInterval), MaxInterval)
    ELSE MaxInterval

NoImdsResult ==
    [success |-> FALSE, method_used |-> "None", AccessKeyId |-> None,
     SecretAccessKey |-> None, Token |-> None,
     Expiration |-> [present |-> FALSE, expires_in |-> 0]]

InitialEnvirons ==
    {[AWS_ACCESS_KEY_ID |-> a, AWS_SECRET_ACCESS_KEY |-> s, AWS_SESSION_TOKEN |-> t] :
        a \in {None, StaticCred}, s \in {None, StaticCred}, t \in {None, StaticCred}}

InitCredVars ==
    /\ environ \in InitialEnvirons
    /\ cred_pc = "startup"
    /\ sleep_for = 0
    /\ n_fetch = 0
    /\ imds_result = NoImdsResult
    /\ last_fetch = "none"
    /\ shutdown = FALSE

\* os.getenv("AWS_ACCESS_KEY_ID") and os.getenv("AWS_SECRET_ACCESS_KEY")
IgnoreStaticCredentials(env) == FALSE

HasStaticCredentials(env) ==
    env.AWS_ACCESS_KEY_ID # None /\ env.AWS_SECRET_ACCESS_KEY # None

\* startup_event, local mode: the refresh task is not started
StartupLocal ==
    /\ cred_pc = "startup"
    /\ HasStaticCredentials(environ)
    /\ cred_pc' = "local"
    /\ UNCHANGED <<environ, sleep_for, n_fetch, imds_result, last_fetch, shutdown,
                   splitVars, connVars, echoVars>>

\* where startup_event leaves the refresh task after a failed initial fetch
StartupAfterFailure == "no_task"

\* startup_event, the initial fetch
StartupFetch ==
    /\ cred_pc = "startup"
    /\ ~HasStaticCredentials(environ)
    /\ \E imds \in ImdsAnswers :
        LET r == get_credentials_from_imds(imds, n_fetch + 1)
            set == SetEnviron(environ, r)
        IN  /\ n_fetch' = n_fetch + 1
            /\ imds_result' = r
            /\ IF r.success
               THEN /\ environ' = set.env
                    /\ last_fetch' = IF set.raised THEN "exc" ELSE "ok"
                    /\ cred_pc' = IF set.raised THEN "startup_raised" ELSE "created"
               ELSE /\ environ' = environ
                    /\ last_fetch' = "fail"
                    /\ cred_pc' = StartupAfterFailure
    /\ UNCHANGED <<sleep_for, shutdown, splitVars, connVars, echoVars>>

\* where a CancelledError raised in the asyncio.sleep of each branch ends the task
OnCancel(at) ==
    CASE at = "sleep_ok" -> "exited"
      [] at = "sleep_fail" -> "exited"
      [] at = "sleep_exc" -> "cancelled_raised"
      [] OTHER -> "cancelled_unstarted"

\* the delay of the except-branches
BackoffZero(kind) == 0

Backoff(kind) == RetryDelay

InLoop == cred_pc \in {"created", "sleep_ok", "sleep_fail", "sleep_exc"}

\* one iteration of refresh_credentials_from_imds: from the start of the task or
\* the end of a sleep to the next asyncio.sleep
RefreshIteration ==
    /\ InLoop
    /\ n_fetch < MaxFetch
    /\ \E imds \in ImdsAnswers :
        LET r == get_credentials_from_imds(imds, n_fetch + 1)
            set == SetEnviron(environ, r)
        IN  /\ n_fetch' = n_fetch + 1
            /\ imds_result' = r
            /\ IF r.success
               THEN /\ environ' = set.env
                    /\ IF set.raised
                       THEN /\ last_fetch' = "exc"
                            /\ cred_pc' = "sleep_exc"
                            /\ sleep_for' = Backoff("exc")
                       ELSE /\ last_fetch' = "ok"
                            /\ cred_pc' = "sleep_ok"
                            /\ sleep_for' = RefreshInterval(r.Expiration)
               ELSE /\ environ' = environ
                    /\ last_fetch' = "fail"
                    /\ cred_pc' = "sleep_fail"
                    /\ sleep_for' = Backoff("fail")
    /\ UNCHANGED <<shutdown, splitVars, connVars, echoVars>>

\* shutdown_event: credential_refresh_task.cancel() and await
ShutdownCancel ==
    /\ InLoop
    /\ ~shutdown
    /\ shutdown' = TRUE
    /\ cred_pc' = OnCancel(cred_pc)
    /\ UNCHANGED <<environ, sleep_for, n_fetch, imds_result, last_fetch, splitVars,
                   connVars, echoVars>>

\* shutdown_event when there is no task to cancel
ShutdownNoTask ==
    /\ cred_pc \in {"local", "no_task"}
    /\ ~shutdown
    /\ shutdown' = TRUE
    /\ UNCHANGED <<environ, cred_pc, sleep_for, n_fetch, imds_result, last_fetch,
                   splitVars, connVars, echoVars>>

(***************************************************************************)
(* The connection.  Client frames.                                         *)
(* A frame is text; json says whether json.loads accepts it, wrapped       *)
(* whether the parsed object has a "body" key, body_text whether the value *)
(* of that key is text, body_ok whether the body text parses, hasEvent     *)
(* whether the (inner) object has an "event" key,                          *)
(* and event is the value of that key: the kind is its first key, and a    *)
(* field that the payload does not have is Absent.                         *)
(***************************************************************************)
Absent == "<absent>"

EmptyEvent == "<empty>"

Event(kind, promptName, contentName, type, content) ==
    [kind |-> kind, promptName |-> promptName, contentName |-> contentName,
     type |-> type, content |-> content]

NoData == Event("<none>", Absent, Absent, Absent, Absent)

\* data when the parsed object has no "event" key, and when it is the outer object
\* of a frame whose body does not parse
NoEventData == Event("<no event>", Absent, Absent, Absent, Absent)

WrapperData == Event("<body>", Absent, Absent, Absent, Absent)

Frame(event) ==
    [json |-> TRUE, wrapped |-> FALSE, body_text |-> TRUE, body_ok |-> TRUE,
     hasEvent |-> TRUE, event |-> event]

SessionStartFrame == Frame(Event("sessionStart", Absent, Absent, Absent, Absent))
SessionEndFrame == Frame(Event("sessionEnd", Absent, Absent, Absent, Absent))
PromptStartFrame == Frame(Event("promptStart", "p1", Absent, Absent, Absent))
AudioInputFrame == Frame(Event("audioInput", "p1", "c1", Absent, "base64"))
TextInputFrame == Frame(Event("textInput", "p1", "c2", Absent, "hello"))
InvalidJsonFrame == [Frame(NoData) EXCEPT !.json = FALSE, !.hasEvent = FALSE]

ContentStartFrame == Frame(Event("contentStart", "p1", "c1", "AUDIO", Absent))
\* a contentStart that is not of type AUDIO, and a second prompt
ContentStartTextFrame == Frame(Event("contentStart", "p1", "c2", "TEXT", Absent))
PromptStart2Frame == Frame(Event("promptStart", "p2", Absent, Absent, Absent))
\* an audioInput whose payload has no "content"
AudioInputNoContentFrame == Frame(Event("audioInput", "p1", "c1", Absent, Absent))
\* {"body": "<a string that json.loads rejects>"}
WrappedInvalidFrame == [Frame(NoData) EXCEPT !.wrapped = TRUE, !.body_ok = FALSE,
                                             !.hasEvent = FALSE]
\* {"body": 5}: json.loads of a body that is not text raises TypeError
BodyNotTextFrame == [Frame(NoData) EXCEPT !.wrapped = TRUE, !.body_text = FALSE,
                                          !.body_ok = FALSE, !.hasEvent = FALSE]
\* {"body": "<the text of a textInput frame>"}
WrappedTextInputFrame == [TextInputFrame EXCEPT !.wrapped = TRUE]
\* an object without "event", and {"event": {}}
NoEventFrame == [Frame(NoData) EXCEPT !.hasEvent = FALSE]
EmptyEventFrame == Frame(Event(EmptyEvent, Absent, Absent, Absent, Absent))

\* the frames of the session-lifecycle specification
LifecycleFrames == {SessionStartFrame, SessionEndFrame, TextInputFrame}

\* the frames of the forwarding specification
ForwardFrames == {SessionStartFrame, SessionEndFrame}

\* the frames of the routing specification
RouteFrames ==
    {SessionStartFrame, SessionEndFrame, PromptStartFrame, ContentStartFrame,
     ContentStartTextFrame, PromptStart2Frame, AudioInputFrame, TextInputFrame,
     WrappedTextInputFrame, AudioInputNoContentFrame, InvalidJsonFrame,
     WrappedInvalidFrame, BodyNotTextFrame, NoEventFrame, EmptyEventFrame}

\* the frame {"body": "<the text of msg>"}: its body parses iff the text of msg
\* does, and the object the body parses to is the outer object of msg, which has
\* the "event" key of msg only if msg is not itself a wrapper
Wrap(msg) ==
    [json |-> TRUE, wrapped |-> TRUE, body_text |-> TRUE, body_ok |-> msg.json,
     hasEvent |-> (msg.json /\ ~msg.wrapped /\ msg.hasEvent),
     event |-> (IF msg.json /\ ~msg.wrapped THEN msg.event ELSE NoData)]

\* the parse of a handler that reads "event" from the wrapper itself
ParseWithoutUnwrap(msg) ==
    IF ~msg.json THEN "JSONDecodeError"
    ELSE IF msg.wrapped THEN "no_event"
    ELSE IF ~msg.hasEvent THEN "no_event"
    ELSE IF msg.event.kind = EmptyEvent THEN "IndexError"
    ELSE "event"

Parse(msg) ==
    IF ~msg.json THEN "JSONDecodeError"
    ELSE IF msg.wrapped /\ ~msg.body_text THEN "TypeError"
    ELSE IF msg.wrapped /\ ~msg.body_ok THEN "JSONDecodeError"
    ELSE IF ~msg.hasEvent THEN "no_event"
    ELSE IF msg.event.kind = EmptyEvent THEN "IndexError"
    ELSE "event"

(***************************************************************************)
(* Backend events of the connection specifications, and the frames written *)
(* to the client.                                                          *)
(***************************************************************************)
BackendEvent(kind, meta, n) ==
    [hasEvent |-> TRUE, kind |-> kind, hasContent |-> TRUE, meta |-> meta,
     content |-> Text(n), width |-> 1]

SmallMeta == 200
SmallLen == 64
LargeLen == 12000

BackendEvents ==
    {BackendEvent("textOutput", SmallMeta, SmallLen),
     BackendEvent("audioOutput", SmallMeta, LargeLen)}

ErrorFrame(message) ==
    [bridge |-> 0, seq |-> 0, idx |-> 0, kind |-> "error", content |-> <<>>,
     bytes |-> 0, message |-> message]

ChunkFrame(b, seq, idx, e) ==
    [bridge |-> b, seq |-> seq, idx |-> idx, kind |-> e.kind, content |-> e.content,
     bytes |-> EventSize(e), message |-> ""]

(***************************************************************************)
(* S2sSessionManager, after section 4.3 of the specification.              *)
(***************************************************************************)
NewBridge ==
    [state |-> "Created", is_active |-> FALSE, prompt_name |-> Absent,
     audio_content_name |-> Absent, output_queue |-> <<>>, audio_queue |-> <<>>,
     sent |-> <<>>, n_emitted |-> 0, close_calls |-> 0, calls |-> <<>>]

\* initialize_stream(), from the call to its completion
InitBegin(b) == [b EXCEPT !.state = "StreamInitializing"]

InitOk(b) == [b EXCEPT !.state = "Active", !.is_active = TRUE]

InitFailed(b) == [b EXCEPT !.state = "Created"]

\* close(): a no-op on a bridge that is not open
CloseBegin(b) ==
    IF b.state = "Active"
    THEN [b EXCEPT !.state = "Closing", !.is_active = FALSE, !.close_calls = @ + 1]
    ELSE [b EXCEPT !.close_calls = @ + 1]

CloseEnd(b) == IF b.state = "Closing" THEN [b EXCEPT !.state = "Closed"] ELSE b

\* send_raw_event(data), completed: the backend has the event
SendOk(b, d) == [b EXCEPT !.sent = Append(@, d)]

\* the handler invokes op on the bridge with event d: the record of the invocation,
\* made when the call is made, whether or not it then succeeds
Called(b, op, d) == [b EXCEPT !.calls = Append(@, [op |-> op, kind |-> d.kind])]

\* add_audio_chunk(prompt_name, content_name, audio_base64)
AddAudioChunk(b, promptName, contentName, content) ==
    [b EXCEPT !.audio_queue =
        Append(@, [promptName |-> promptName, contentName |-> contentName,
                   content |-> content])]

(***************************************************************************)
(* websocket_endpoint                                                      *)
(***************************************************************************)
MaxBridges == 2
MaxRecv == 3
MaxEmit == 1
FwdMaxRecv == 2
FwdMaxEmit == 2
RouteMaxRecv == 4

InitConnVars ==
    /\ pc = "recv"
    /\ stream_manager = 0
    /\ forward_task = 0
    /\ data = NoData
    /\ bridges = <<>>
    /\ tasks = <<>>
    /\ client_gone = FALSE
    /\ ws_closed = FALSE
    /\ ws_out = <<>>
    /\ n_recv = 0

\* websocket.send_json({"type": "error", ...}) inside try/except: best effort
SendError(out, message) ==
    IF client_gone \/ ws_closed THEN out ELSE Append(out, ErrorFrame(message))

\* "if forward_task and not forward_task.done()"
TaskRunning(ts, t) == t # 0 /\ ts[t].status = "running"

\* forward_task.cancel() and await forward_task, when the test above holds
NoCancel(ts, t) == ts

CancelAndAwait(ts, t) ==
    IF TaskRunning(ts, t)
    THEN [ts EXCEPT ![t].status = "cancelled", ![t].pending = <<>>]
    ELSE ts

\* "if stream_manager:" before "await stream_manager.close()"
NeverClose(sm) == FALSE

MustClose(sm) == sm # 0

\* stream_manager = S2sSessionManager(...) and the call of initialize_stream()
CreateBridge(bs) == Append(bs, InitBegin(NewBridge))

\* forward_task = asyncio.create_task(forward_responses(websocket, stream_manager))
CreateTaskEnded(ts, b) == Append(ts, [bridge |-> b, status |-> "ended", pending |-> <<>>])

CreateTask(ts, b) == Append(ts, [bridge |-> b, status |-> "running", pending |-> <<>>])

\* the finally block, up to its first suspension
EnterFinally ==
    IF MustClose(stream_manager)
    THEN /\ bridges' = [bridges EXCEPT ![stream_manager] = CloseBegin(@)]
         /\ pc' = "fin_close"
         /\ UNCHANGED tasks
    ELSE /\ tasks' = CancelAndAwait(tasks, forward_task)
         /\ pc' = "fin_ws"
         /\ UNCHANGED bridges

\* message = await websocket.receive_text() raises WebSocketDisconnect
ReceiveDisconnect ==
    /\ pc = "recv"
    /\ client_gone
    /\ EnterFinally
    /\ UNCHANGED <<stream_manager, forward_task, data, client_gone, ws_closed, ws_out,
                   n_recv, splitVars, credVars, echoVars>>

\* a frame that json.loads rejects
OnInvalidJsonSilent(msg) ==
    /\ data' = IF msg.json THEN WrapperData ELSE data
    /\ UNCHANGED <<pc, stream_manager, forward_task, bridges, tasks, ws_out>>

OnInvalidJson(msg) ==
    /\ ws_out' = SendError(ws_out, "Invalid JSON format")
    /\ data' = IF msg.json THEN WrapperData ELSE data
    /\ UNCHANGED <<pc, stream_manager, forward_task, bridges, tasks>>

\* a frame without "event", were it answered like a frame that does not parse
OnNoEventReported ==
    /\ ws_out' = SendError(ws_out, "Invalid JSON format")
    /\ data' = NoEventData
    /\ UNCHANGED <<pc, stream_manager, forward_task, bridges, tasks>>

\* a frame without "event": continue
OnNoEvent ==
    /\ data' = NoEventData
    /\ UNCHANGED <<pc, stream_manager, forward_task, bridges, tasks, ws_out>>

\* an exception while the frame is processed: "except Exception as exp"
OnExceptionTerminates(message) ==
    /\ ws_out' = SendError(ws_out, message)
    /\ pc' = "done"

OnException(message) ==
    /\ ws_out' = SendError(ws_out, message)
    /\ pc' = "recv"

\* event_type == 'sessionStart', up to the first suspension
OnSessionStart(d) ==
    /\ Len(bridges) < MaxBridges
    /\ data' = d
    /\ IF MustClose(stream_manager)
       THEN /\ bridges' = [bridges EXCEPT ![stream_manager] = CloseBegin(@)]
            /\ pc' = "ss_close"
            /\ UNCHANGED <<stream_manager, tasks>>
       ELSE /\ tasks' = CancelAndAwait(tasks, forward_task)
            /\ bridges' = CreateBridge(bridges)
            /\ stream_manager' = Len(bridges) + 1
            /\ pc' = "ss_init"
    /\ UNCHANGED <<forward_task, ws_out>>

\* event_type == 'sessionEnd', up to the first suspension
OnSessionEnd(d) ==
    /\ data' = d
    /\ IF MustClose(stream_manager)
       THEN /\ bridges' = [bridges EXCEPT ![stream_manager] = CloseBegin(@)]
            /\ pc' = "se_close"
            /\ UNCHANGED <<stream_manager, forward_task, tasks>>
       ELSE /\ tasks' = CancelAndAwait(tasks, forward_task)
            /\ forward_task' = IF TaskRunning(tasks, forward_task) THEN 0 ELSE forward_task
            /\ pc' = "recv"
            /\ UNCHANGED <<stream_manager, bridges>>
    /\ UNCHANGED ws_out

\* "if stream_manager and stream_manager.is_active"
HasStreamManager == stream_manager # 0

HasUnclosedStream ==
    stream_manager # 0 /\ bridges[stream_manager].state \notin {"Closing", "Closed"}

HasActiveStream == stream_manager # 0 /\ bridges[stream_manager].is_active

\* the session fields stored from promptStart and from contentStart of type AUDIO
StoreNamesOfAnyContent(b, d) ==
    IF d.kind = "promptStart" THEN [b EXCEPT !.prompt_name = d.promptName]
    ELSE IF d.kind = "contentStart"
    THEN [b EXCEPT !.audio_content_name = d.contentName]
    ELSE b

StoreNames(b, d) ==
    IF d.kind = "promptStart" THEN [b EXCEPT !.prompt_name = d.promptName]
    ELSE IF d.kind = "contentStart" /\ d.type = "AUDIO"
    THEN [b EXCEPT !.audio_content_name = d.contentName]
    ELSE b

\* the subscripts the code evaluates on this event raise KeyError
FieldMissing(d) ==
    \/ d.kind = "promptStart" /\ d.promptName = Absent
    \/ d.kind = "contentStart" /\ d.type = "AUDIO" /\ d.contentName = Absent
    \/ d.kind = "audioInput"
       /\ (d.promptName = Absent \/ d.contentName = Absent \/ d.content = Absent)

\* audioInput goes to the audio queue, every other event to send_raw_event
IsQueuedNever(d) == FALSE

IsQueued(d) == d.kind = "audioInput"

\* any other event, up to the first suspension
OnOtherEvent(d) ==
    /\ data' = d
    /\ UNCHANGED <<stream_manager, forward_task, tasks>>
    /\ IF HasActiveStream
       THEN IF FieldMissing(d)
            THEN /\ OnException("KeyError")
                 /\ UNCHANGED bridges
            ELSE IF IsQueued(d)
            THEN /\ bridges' = [bridges EXCEPT ![stream_manager] =
                        Called(AddAudioChunk(StoreNames(@, d), d.promptName,
                                             d.contentName, d.content),
                               "add_audio_chunk", d)]
                 /\ pc' = "recv"
                 /\ UNCHANGED ws_out
            ELSE /\ bridges' = [bridges EXCEPT ![stream_manager] =
                        Called(StoreNames(@, d), "send_raw_event", d)]
                 /\ pc' = "ev_send"
                 /\ UNCHANGED ws_out
       ELSE UNCHANGED <<pc, bridges, ws_out>>

\* one pass of the loop body on a received frame, up to its first suspension
Handle(msg) ==
    CASE Parse(msg) = "JSONDecodeError" -> OnInvalidJson(msg)
      [] Parse(msg) = "no_event" -> OnNoEvent
      [] Parse(msg) = "TypeError" ->
            /\ OnException("the JSON object must be str, bytes or bytearray, not int")
            /\ data' = WrapperData
            /\ UNCHANGED <<stream_manager, forward_task, bridges, tasks>>
      [] Parse(msg) = "IndexError" ->
            /\ OnException("list index out of range")
            /\ data' = msg.event
            /\ UNCHANGED <<stream_manager, forward_task, bridges, tasks>>
      [] OTHER ->
            IF msg.event.kind = "sessionStart" THEN OnSessionStart(msg.event)
            ELSE IF msg.event.kind = "sessionEnd" THEN OnSessionEnd(msg.event)
            ELSE OnOtherEvent(msg.event)

\* message = await websocket.receive_text() returns a frame
Receive(msgs, maxRecv) ==
    /\ pc = "recv"
    /\ ~client_gone
    /\ n_recv < maxRecv
    /\ n_recv' = n_recv + 1
    /\ \E msg \in msgs : Handle(msg)
    /\ UNCHANGED <<client_gone, ws_closed, splitVars, credVars, echoVars>>

\* message = await websocket.receive_text() raises another exception (a frame that
\* is not text): "except Exception as e: break"
ReceiveError(maxRecv) ==
    /\ pc = "recv"
    /\ ~client_gone
    /\ n_recv < maxRecv
    /\ n_recv' = n_recv + 1
    /\ EnterFinally
    /\ UNCHANGED <<stream_manager, forward_task, data, client_gone, ws_closed, ws_out,
                   splitVars, credVars, echoVars>>

\* sessionStart: close() of the old bridge has returned; the old task is cancelled
\* and awaited, the new bridge created and initialize_stream() called
SessionStartClosed ==
    /\ pc = "ss_close"
    /\ tasks' = CancelAndAwait(tasks, forward_task)
    /\ bridges' = CreateBridge([bridges EXCEPT ![stream_manager] = CloseEnd(@)])
    /\ stream_manager' = Len(bridges) + 1
    /\ pc' = "ss_init"
    /\ UNCHANGED <<forward_task, data, client_gone, ws_closed, ws_out, n_recv,
                   splitVars, credVars, echoVars>>

\* sessionStart: initialize_stream() has returned; the forwarding task is created
\* and send_raw_event(data) called
SessionStartNotForwarded ==
    /\ pc = "ss_init"
    /\ bridges' = [bridges EXCEPT ![stream_manager] = InitOk(@)]
    /\ tasks' = CreateTask(tasks, stream_manager)
    /\ forward_task' = Len(tasks) + 1
    /\ pc' = "recv"
    /\ UNCHANGED <<stream_manager, data, client_gone, ws_closed, ws_out, n_recv,
                   splitVars, credVars, echoVars>>

SessionStartInitialized ==
    /\ pc = "ss_init"
    /\ bridges' = [bridges EXCEPT ![stream_manager] =
                      Called(InitOk(@), "send_raw_event", data)]
    /\ tasks' = CreateTask(tasks, stream_manager)
    /\ forward_task' = Len(tasks) + 1
    /\ pc' = "ss_send"
    /\ UNCHANGED <<stream_manager, data, client_gone, ws_closed, ws_out, n_recv,
                   splitVars, credVars, echoVars>>

\* sessionStart: initialize_stream() has raised
SessionStartInitFailedTaskLeft ==
    /\ pc = "ss_init"
    /\ bridges' = [bridges EXCEPT ![stream_manager] = InitFailed(@)]
    /\ tasks' = CreateTask(tasks, stream_manager)
    /\ forward_task' = Len(tasks) + 1
    /\ OnException("ConnectionError")
    /\ UNCHANGED <<stream_manager, data, client_gone, ws_closed, n_recv, splitVars,
                   credVars, echoVars>>

SessionStartInitFailed ==
    /\ pc = "ss_init"
    /\ bridges' = [bridges EXCEPT ![stream_manager] = InitFailed(@)]
    /\ OnException("ConnectionError")
    /\ UNCHANGED <<stream_manager, forward_task, data, tasks, client_gone, ws_closed,
                   n_recv, splitVars, credVars, echoVars>>

\* send_raw_event(data) has returned, for sessionStart and for any other event
SendReturned ==
    /\ pc \in {"ss_send", "ev_send"}
    /\ bridges' = [bridges EXCEPT ![stream_manager] = SendOk(@, data)]
    /\ pc' = "recv"
    /\ UNCHANGED <<stream_manager, forward_task, data, tasks, client_gone, ws_closed,
                   ws_out, n_recv, splitVars, credVars, echoVars>>

\* send_raw_event(data) has raised: the backend connection has dropped
SendFailed ==
    /\ pc \in {"ss_send", "ev_send"}
    /\ OnException("ConnectionError")
    /\ UNCHANGED <<stream_manager, forward_task, data, bridges, tasks, client_gone,
                   ws_closed, n_recv, splitVars, credVars, echoVars>>

\* sessionEnd: close() has returned
SessionEndKeepsBridge ==
    /\ pc = "se_close"
    /\ bridges' = [bridges EXCEPT ![stream_manager] = CloseEnd(@)]
    /\ tasks' = CancelAndAwait(tasks, forward_task)
    /\ forward_task' = IF TaskRunning(tasks, forward_task) THEN 0 ELSE forward_task
    /\ pc' = "recv"
    /\ UNCHANGED <<stream_manager, data, client_gone, ws_closed, ws_out, n_recv,
                   splitVars, credVars, echoVars>>

SessionEndClosed ==
    /\ pc = "se_close"
    /\ bridges' = [bridges EXCEPT ![stream_manager] = CloseEnd(@)]
    /\ stream_manager' = 0
    /\ tasks' = CancelAndAwait(tasks, forward_task)
    /\ forward_task' = IF TaskRunning(tasks, forward_task) THEN 0 ELSE forward_task
    /\ pc' = "recv"
    /\ UNCHANGED <<data, client_gone, ws_closed, ws_out, n_recv, splitVars, credVars, echoVars>>

\* finally: close() has returned; the task is cancelled and awaited
FinallyClosed ==
    /\ pc = "fin_close"
    /\ bridges' = [bridges EXCEPT ![stream_manager] = CloseEnd(@)]
    /\ tasks' = CancelAndAwait(tasks, forward_task)
    /\ pc' = "fin_ws"
    /\ UNCHANGED <<stream_manager, forward_task, data, client_gone, ws_closed, ws_out,
                   n_recv, splitVars, credVars, echoVars>>

\* finally: await websocket.close(), and the handler returns
FinallyLeaveTransportOpen ==
    /\ pc = "fin_ws"
    /\ pc' = "done"
    /\ UNCHANGED <<stream_manager, forward_task, data, bridges, tasks, client_gone,
                   ws_closed, ws_out, n_recv, splitVars, credVars, echoVars>>

FinallyCloseTransport ==
    /\ pc = "fin_ws"
    /\ ws_closed' = TRUE
    /\ pc' = "done"
    /\ UNCHANGED <<stream_manager, forward_task, data, bridges, tasks, client_gone,
                   ws_out, n_recv, splitVars, credVars, echoVars>>

(***************************************************************************)
(* forward_responses                                                       *)
(***************************************************************************)
\* "if event_size > 10000" and split_large_event(response, max_size=10000)
SplitThreshold == 10000

EventsToSend(e) ==
    IF EventSize(e) > SplitThreshold
    THEN split_large_event(e, ForwardMaxSize)
    ELSE Returned(<<e>>)

\* response = await stream_manager.output_queue.get()
TakeLast(q) == [item |-> q[Len(q)], rest |-> SubSeq(q, 1, Len(q) - 1)]

TakeNext(q) == [item |-> Head(q), rest |-> Tail(q)]

\* the queue get and the computation of events_to_send; a ValueError of the split
\* is caught by "except Exception" and the loop goes on
ForwardGet(t) ==
    /\ tasks[t].status = "running"
    /\ tasks[t].pending = <<>>
    /\ LET b == tasks[t].bridge
           q == bridges[b].output_queue
       IN  /\ q # <<>>
           /\ LET got == TakeNext(q)
                  r == EventsToSend(got.item.event)
              IN  /\ bridges' = [bridges EXCEPT ![b].output_queue = got.rest]
                  /\ tasks' = [tasks EXCEPT ![t].pending =
                        [i \in 1..Len(r.chunks) |->
                            ChunkFrame(b, got.item.seq, i, r.chunks[i])]]
    /\ UNCHANGED <<pc, stream_manager, forward_task, data, client_gone, ws_closed,
                   ws_out, n_recv, splitVars, credVars, echoVars>>

\* await websocket.send_text(chunk_json) returns
ForwardSend(t) ==
    /\ tasks[t].status = "running"
    /\ tasks[t].pending # <<>>
    /\ ~client_gone /\ ~ws_closed
    /\ ws_out' = Append(ws_out, Head(tasks[t].pending))
    /\ tasks' = [tasks EXCEPT ![t].pending = Tail(@)]
    /\ UNCHANGED <<pc, stream_manager, forward_task, data, bridges, client_gone,
                   ws_closed, n_recv, splitVars, credVars, echoVars>>

\* "if 'closed' in error_str or 'disconnect' in error_str: break"
BreaksNever(error_str) == FALSE

BreaksLoop(error_str) == error_str \in {"closed", "disconnect"}

\* what str(e).lower() of a failed write contains
ErrorStrs == {"closed", "disconnect", "other"}

\* await websocket.send_text(chunk_json) raises e: the rest of the chunks is skipped,
\* and the loop is left or goes on to the next event
SendRaises(t, error_str) ==
    /\ tasks[t].status = "running"
    /\ tasks[t].pending # <<>>
    /\ client_gone \/ ws_closed
    /\ tasks' = [tasks EXCEPT ![t].pending = <<>>,
                              ![t].status = IF BreaksLoop(error_str) THEN "ended" ELSE @]
    /\ UNCHANGED <<pc, stream_manager, forward_task, data, bridges, client_gone,
                   ws_closed, ws_out, n_recv, splitVars, credVars, echoVars>>

ForwardSendFailed(t) == \E error_str \in ErrorStrs : SendRaises(t, error_str)

(***************************************************************************)
(* The environment: the backend stream and the client.                     *)
(***************************************************************************)
\* events emitted on this connection so far, over all its bridges
RECURSIVE SumEmitted(_)
SumEmitted(bs) == IF bs = <<>> THEN 0 ELSE Head(bs).n_emitted + SumEmitted(Tail(bs))

Emitted == SumEmitted(bridges)

\* the backend puts an event on the output queue of an open bridge
BackendEmit(b, events, maxEmit) ==
    /\ bridges[b].state = "Active"
    /\ Emitted < maxEmit
    /\ \E e \in events :
        bridges' = [bridges EXCEPT
            ![b].output_queue = Append(@, [seq |-> bridges[b].n_emitted + 1, event |-> e]),
            ![b].n_emitted = @ + 1]
    /\ UNCHANGED <<pc, stream_manager, forward_task, data, tasks, client_gone, ws_closed,
                   ws_out, n_recv, splitVars, credVars, echoVars>>

ClientDisconnect ==
    /\ ~client_gone
    /\ pc # "done"
    /\ client_gone' = TRUE
    /\ UNCHANGED <<pc, stream_manager, forward_task, data, bridges, tasks, ws_closed,
                   ws_out, n_recv, splitVars, credVars, echoVars>>

(***************************************************************************)
(* The echo server.  A frame is [type, payload]; the transport hands the   *)
(* handler {"type": "websocket.receive", "text": ...} for a text frame and *)
(* {"type": "websocket.receive", "bytes": ...} for a binary frame, and     *)
(* {"type": "websocket.disconnect"} when the client has closed.            *)
(* receive_text() takes the next message off the connection and returns    *)
(* message["text"], receive_bytes() takes it and returns message["bytes"]: *)
(* each raises KeyError on a frame of the other type, after taking it, and *)
(* WebSocketDisconnect on the disconnect message; a receive after the      *)
(* disconnect message raises RuntimeError.                                 *)
(***************************************************************************)
MaxEchoFrames == 3

EchoPayloads == {"a", "b"}

EchoFrame(type, payload) == [type |-> type, payload |-> payload]

EchoFrames == {EchoFrame(type, payload) : type \in {"text", "binary"}, payload \in EchoPayloads}

EchoDisconnect == EchoFrame("disconnect", "")

NoEchoMessage == ""

\* after "await websocket.accept()"
InitEchoVars ==
    /\ echo_pc = "receive_text"
    /\ echo_inbox = <<>>
    /\ echo_message = NoEchoMessage
    /\ echo_received = <<>>
    /\ echo_sent = <<>>
    /\ echo_open = TRUE

\* the client sends a frame: await websocket.send(...)
EchoClientSend ==
    /\ echo_open
    /\ Len(echo_received) + Len(echo_inbox) < MaxEchoFrames
    /\ \E f \in EchoFrames : echo_inbox' = Append(echo_inbox, f)
    /\ UNCHANGED <<echo_pc, echo_message, echo_received, echo_sent, echo_open,
                   splitVars, credVars, connVars>>

\* the client closes the connection
EchoClientClose ==
    /\ echo_open
    /\ echo_open' = FALSE
    /\ echo_inbox' = Append(echo_inbox, EchoDisconnect)
    /\ UNCHANGED <<echo_pc, echo_message, echo_received, echo_sent,
                   splitVars, credVars, connVars>>

\* the frames received, with the message just taken off the connection
Taken(f) == IF f.type = "disconnect" THEN echo_received ELSE Append(echo_received, f)

\* message = await websocket.receive_text(): a text frame is returned; on a binary
\* frame the KeyError goes to "except Exception" and receive_bytes() is called; on
\* the disconnect message receive_bytes() raises at once and the loop is left
EchoReceiveText ==
    /\ echo_pc = "receive_text"
    /\ echo_inbox # <<>>
    /\ LET f == Head(echo_inbox)
       IN  /\ echo_inbox' = Tail(echo_inbox)
           /\ echo_received' = Taken(f)
           /\ echo_pc' = CASE f.type = "text" -> "send_text"
                           [] f.type = "binary" -> "receive_bytes"
                           [] OTHER -> "done"
           /\ echo_message' = IF f.type = "text" THEN f.payload ELSE echo_message
    /\ UNCHANGED <<echo_sent, echo_open, splitVars, credVars, connVars>>

\* await websocket.send_text(message) returns: the frame is written if the client
\* is there
EchoSendText ==
    /\ echo_pc = "send_text"
    /\ echo_sent' = IF echo_open THEN Append(echo_sent, EchoFrame("text", echo_message))
                    ELSE echo_sent
    /\ echo_pc' = "receive_text"
    /\ UNCHANGED <<echo_inbox, echo_message, echo_received, echo_open,
                   splitVars, credVars, connVars>>

\* await websocket.send_text(message) raises, the client being gone: "except
\* Exception" calls receive_bytes()
EchoSendTextFailed ==
    /\ echo_pc = "send_text"
    /\ ~echo_open
    /\ echo_pc' = "receive_bytes"
    /\ UNCHANGED <<echo_inbox, echo_message, echo_received, echo_sent, echo_open,
                   splitVars, credVars, connVars>>

\* data = await websocket.receive_bytes(): a binary frame is returned; on a text
\* frame (KeyError) and on the disconnect message "except Exception: break"
EchoReceiveBytes ==
    /\ echo_pc = "receive_bytes"
    /\ echo_inbox # <<>>
    /\ LET f == Head(echo_inbox)
       IN  /\ echo_inbox' = Tail(echo_inbox)
           /\ echo_received' = Taken(f)
           /\ echo_pc' = IF f.type = "binary" THEN "send_bytes" ELSE "done"
           /\ echo_message' = IF f.type = "binary" THEN f.payload ELSE echo_message
    /\ UNCHANGED <<echo_sent, echo_open, splitVars, credVars, connVars>>

\* await websocket.send_bytes(data) returns, and the loop starts over
EchoSendBytes ==
    /\ echo_pc = "send_bytes"
    /\ echo_sent' = IF echo_open THEN Append(echo_sent, EchoFrame("binary", echo_message))
                    ELSE echo_sent
    /\ echo_pc' = "receive_text"
    /\ UNCHANGED <<echo_inbox, echo_message, echo_received, echo_open,
                   splitVars, credVars, connVars>>

\* await websocket.send_bytes(data) raises, the client being gone: break
EchoSendBytesFailed ==
    /\ echo_pc = "send_bytes"
    /\ ~echo_open
    /\ echo_pc' = "done"
    /\ UNCHANGED <<echo_inbox, echo_message, echo_received, echo_sent, echo_open,
                   splitVars, credVars, connVars>>

(***************************************************************************)
(* Specifications                                                          *)
(***************************************************************************)
InitOther ==
    /\ InitEchoVars
    /\ response = BackendEvent("textOutput", SmallMeta, SmallLen)
    /\ max_size = ForwardMaxSize
    /\ split_result = NoResult
    /\ InitCredVars
    /\ environ = [AWS_ACCESS_KEY_ID |-> None, AWS_SECRET_ACCESS_KEY |-> None,
                  AWS_SESSION_TOKEN |-> None]

\* ---- split_large_event on every input
InitSplit == InitSplitVars /\ InitCredVars /\ InitConnVars /\ InitEchoVars
             /\ environ.AWS_ACCESS_KEY_ID = None
             /\ environ.AWS_SECRET_ACCESS_KEY = None
             /\ environ.AWS_SESSION_TOKEN = None

NextSplit == CallSplit

SpecSplit == InitSplit /\ [][NextSplit]_vars

\* ---- the credential refresh from process start to shutdown
InitCred ==
    /\ InitCredVars
    /\ InitConnVars
    /\ InitEchoVars
    /\ response = BackendEvent("textOutput", SmallMeta, SmallLen)
    /\ max_size = ForwardMaxSize
    /\ split_result = NoResult

NextCred ==
    \/ StartupLocal
    \/ StartupFetch
    \/ RefreshIteration
    \/ ShutdownCancel
    \/ ShutdownNoTask

SpecCred == InitCred /\ [][NextCred]_vars

\* ---- one connection: the session lifecycle
Init == InitConnVars /\ InitOther

HandlerReturns ==
    \/ SessionStartClosed
    \/ SessionStartInitialized
    \/ SessionStartInitFailed
    \/ SendReturned
    \/ SendFailed
    \/ SessionEndClosed
    \/ FinallyClosed
    \/ FinallyCloseTransport

ForwardStep ==
    \E t \in 1..Len(tasks) :
        \/ ForwardGet(t)
        \/ ForwardSend(t)
        \/ ForwardSendFailed(t)

Next ==
    \/ Receive(LifecycleFrames, MaxRecv)
    \/ ReceiveError(MaxRecv)
    \/ ReceiveDisconnect
    \/ HandlerReturns
    \/ ForwardStep
    \/ \E b \in 1..Len(bridges) : BackendEmit(b, BackendEvents, MaxEmit)
    \/ ClientDisconnect

Spec == Init /\ [][Next]_vars

\* awaited calls return: close() and websocket.close() in the finally block
LiveSpec == Spec /\ WF_vars(FinallyClosed) /\ WF_vars(FinallyCloseTransport)

\* ---- one connection: the forwarding of backend events
NextForward ==
    \/ Receive(ForwardFrames, FwdMaxRecv)
    \/ ReceiveError(FwdMaxRecv)
    \/ ReceiveDisconnect
    \/ HandlerReturns
    \/ ForwardStep
    \/ \E b \in 1..Len(bridges) : BackendEmit(b, BackendEvents, FwdMaxEmit)
    \/ ClientDisconnect

SpecForward == Init /\ [][NextForward]_vars

\* ---- one connection: the routing of client frames, without backend output
NextRouting ==
    \/ Receive(RouteFrames, RouteMaxRecv)
    \/ ReceiveError(RouteMaxRecv)
    \/ ReceiveDisconnect
    \/ HandlerReturns
    \/ ClientDisconnect

SpecRouting == Init /\ [][NextRouting]_vars

\* ---- one connection to the echo server
NextEcho ==
    \/ EchoClientSend
    \/ EchoClientClose
    \/ EchoReceiveText
    \/ EchoSendText
    \/ EchoSendTextFailed
    \/ EchoReceiveBytes
    \/ EchoSendBytes
    \/ EchoSendBytesFailed

SpecEcho == Init /\ [][NextEcho]_vars

(***************************************************************************)
(* Properties                                                              *)
(***************************************************************************)
Bridges == 1..Len(bridges)
Tasks == 1..Len(tasks)

\* the bridge is an open session: initialized and not yet closed
IsSession(b) == bridges[b].state \in {"Active", "Closing"}

\* C1: when a sessionStart replaces a session, the old bridge has had its close()
\* call (and close() has returned) and the old forwarding task has been cancelled
\* and awaited before the new bridge exists: every bridge but the newest has seen
\* close, is not open, and has no running forwarding task.
C1_ClosedBeforeNextBridge ==
    \A b \in Bridges :
        b < Len(bridges) =>
            /\ bridges[b].close_calls >= 1
            /\ ~IsSession(b)
            /\ \A t \in Tasks : tasks[t].bridge = b => tasks[t].status # "running"

\* two frames, both sessionStart: the second replaced the first while it was open
C1_Witness ==
    /\ n_recv = 2
    /\ Len(bridges) = 2
    /\ bridges[1].state = "Closed"
    /\ bridges[1].close_calls = 1
    /\ Len(tasks) >= 1 /\ tasks[1].status = "cancelled"
    /\ bridges[2].state = "StreamInitializing"

\* the handler is back at the receive after a sessionStart whose initialize_stream()
\* raised
LastInitFailed ==
    /\ pc = "recv"
    /\ data.kind = "sessionStart"
    /\ Len(bridges) > 0
    /\ bridges[Len(bridges)].state = "Created"

\* the newest bridge failed to initialize
FailedAttached == Len(bridges) > 0 /\ bridges[Len(bridges)].state = "Created"

\* C2 as claimed: after a sessionStart whose initialize_stream() fails the handler
\* holds no bridge reference and no forwarding task.
C2_Original == LastInitFailed => (stream_manager = 0 /\ forward_task = 0)

\* C2 as amended: after a sessionStart whose initialize_stream() fails the handler
\* still refers to the failed bridge, but there is no active session: no bridge is
\* active, no forwarding task is running and events are not routed to a bridge;
\* and is_active is true only of a bridge whose initialize_stream() has succeeded.
C2_NoActiveSessionAfterFailedInit ==
    /\ \A b \in Bridges : bridges[b].is_active => bridges[b].state = "Active"
    /\ LastInitFailed => stream_manager = Len(bridges)
    /\ FailedAttached =>
          /\ \A b \in Bridges : ~bridges[b].is_active /\ ~IsSession(b)
          /\ \A t \in Tasks : tasks[t].status # "running"
          /\ ~HasActiveStream

\* a replacing sessionStart has failed: the reference to the old task is still held
C2_Witness ==
    /\ LastInitFailed
    /\ Len(bridges) = 2
    /\ bridges[1].state = "Closed"
    /\ stream_manager = 2
    /\ forward_task = 1

\* the handler has returned with everything released
CleanedUp ==
    /\ ws_closed
    /\ \A b \in Bridges : ~IsSession(b) /\ bridges[b].state # "StreamInitializing"
    /\ \A t \in Tasks : tasks[t].status # "running"

\* C3: once the handler leaves its loop (disconnect or receive error, in any session
\* state) the cleanup completes: the handler returns, and when it has returned the
\* bridge is closed, no forwarding task is running and the transport is closed.
C3_CleanupCompletes ==
    /\ [](pc = "done" => CleanedUp)
    /\ ((pc \in {"fin_close", "fin_ws"}) ~> (pc = "done"))

\* the handler has returned from an open session: bridge closed, task cancelled
C3_Witness ==
    /\ pc = "done"
    /\ CleanedUp
    /\ stream_manager # 0 /\ bridges[stream_manager].state = "Closed"
    /\ forward_task # 0 /\ tasks[forward_task].status = "cancelled"

\* the frames written to the client from bridge b's output queue, in order
Forwarded(b) ==
    LET FromBridge(f) == f.bridge = b
    IN  SelectSeq(ws_out, FromBridge)

\* frame g may directly follow frame f of the same session
Follows(f, g) ==
    \/ f.seq < g.seq
    \/ /\ f.seq = g.seq
       /\ g.idx = f.idx + 1
       /\ Head(g.content).off = Head(f.content).off + Head(f.content).len

\* C4: within one session the frames are written in the order the backend queued
\* the events, and the chunks of one event are written one after the other in
\* content order before any frame of a later event.
C4_ForwardedInOrder ==
    \A b \in Bridges :
        \A i \in 1..(Len(Forwarded(b)) - 1) : Follows(Forwarded(b)[i], Forwarded(b)[i + 1])

\* a split event and another event have both been forwarded on one session
C4_Witness ==
    \E b \in Bridges :
        /\ Len(Forwarded(b)) = 3
        /\ \E i \in 1..2 : Forwarded(b)[i].seq = Forwarded(b)[i + 1].seq
        /\ \E i \in 1..2 : Forwarded(b)[i].seq < Forwarded(b)[i + 1].seq

\* split_large_event has been called on an audioOutput event larger than max_size
SplitBigAudio ==
    /\ split_result.status # "none"
    /\ response.kind = "audioOutput"
    /\ EventSize(response) > max_size

AllChunksAligned ==
    \A i \in 1..Len(split_result.chunks) : StrLen(split_result.chunks[i].content) % 4 = 0

\* the '=' characters that bring n up to a multiple of 4
TailPadding(n) == (4 - (n % 4)) % 4

\* C5 as claimed: for every oversized audioOutput event, of any content length, the
\* chunks' contents concatenated are the original content and every chunk's content
\* length is a multiple of 4.
C5_Original ==
    SplitBigAudio =>
        /\ split_result.status = "returned"
        /\ ConcatContent(split_result.chunks) = response.content
        /\ AllChunksAligned

\* C5 as amended: for every oversized audioOutput event whose metadata leaves an
\* aligned chunk size of at least 4 (max_size - overhead - 100 >= 4), every chunk's
\* content length is a multiple of 4 and the chunks' contents concatenated are the
\* original content followed by the '=' characters that pad its length to a
\* multiple of 4: the original exactly when its length is a multiple of 4.
C5_ConcatIsPaddedOriginal ==
    (SplitBigAudio /\ max_size - response.meta - SafetyMargin >= 4) =>
        /\ split_result.status = "returned"
        /\ AllChunksAligned
        /\ ConcatContent(split_result.chunks) =
              Cat(response.content, Pad(TailPadding(StrLen(response.content))))
        /\ (StrLen(response.content) % 4 = 0 =>
              ConcatContent(split_result.chunks) = response.content)

\* an audioOutput event of a length that is not a multiple of 4, split in three
C5_Witness ==
    /\ SplitBigAudio
    /\ Len(split_result.chunks) >= 3
    /\ StrLen(response.content) % 4 = 3
    /\ ConcatContent(split_result.chunks) = Cat(response.content, Pad(1))

\* C6: an event with a content field that is larger than the 10000 bytes the
\* forwarding task allows is written as at least two frames, each of at most 10000
\* bytes, whose contents concatenated are the original content.
C6_Original ==
    (/\ split_result.status # "none"
     /\ max_size = ForwardMaxSize
     /\ response.hasContent
     /\ EventSize(response) > SplitThreshold) =>
        /\ split_result.status = "returned"
        /\ Len(split_result.chunks) >= 2
        /\ \A i \in 1..Len(split_result.chunks) :
              EventSize(split_result.chunks[i]) <= ForwardMaxSize
        /\ ConcatContent(split_result.chunks) = response.content

\* a text event of escaped characters, split for the forwarding task: a chunk of
\* more than 10000 bytes
C6_Witness ==
    /\ split_result.status = "returned"
    /\ max_size = ForwardMaxSize
    /\ response.width > 1
    /\ Len(split_result.chunks) >= 2
    /\ EventSize(split_result.chunks[1]) > ForwardMaxSize

\* some value of a served bundle is in the environment
HasFetchedValue ==
    \/ environ.AWS_ACCESS_KEY_ID >= 1
    \/ environ.AWS_SECRET_ACCESS_KEY >= 1
    \/ environ.AWS_SESSION_TOKEN >= 1

\* C7: the three cached credential values always belong to one credential set: as
\* soon as one value of a served bundle is in place, all three are of that bundle.
C7_Original ==
    (InLoop /\ HasFetchedValue) =>
        /\ environ.AWS_ACCESS_KEY_ID = environ.AWS_SECRET_ACCESS_KEY
        /\ environ.AWS_SECRET_ACCESS_KEY = environ.AWS_SESSION_TOKEN

\* a refresh of the loop was served a bundle without its token: the key id and the
\* secret are of the new bundle, the token of the one before
C7_Witness ==
    /\ cred_pc = "sleep_exc"
    /\ last_fetch = "exc"
    /\ environ.AWS_ACCESS_KEY_ID = n_fetch
    /\ environ.AWS_SECRET_ACCESS_KEY = n_fetch
    /\ environ.AWS_SESSION_TOKEN >= 1
    /\ environ.AWS_SESSION_TOKEN < n_fetch

\* C8: a refresh task cancelled in any of its three sleeps ends without an
\* exception leaving it.
C8_Original == cred_pc # "cancelled_raised"

\* shutdown_event has cancelled the task in the sleep of its exception handler
C8_Witness ==
    /\ shutdown
    /\ cred_pc = "cancelled_raised"
    /\ last_fetch = "exc"

\* C9: fetch failures are never fatal and always retried: after any failed fetch,
\* the initial one included, the refresh loop is waiting out its 300-second backoff
\* before the next attempt, until it is cancelled.
C9_Original ==
    (last_fetch \in {"fail", "exc"} /\ ~shutdown) =>
        (cred_pc \in {"sleep_fail", "sleep_exc"} /\ sleep_for = RetryDelay)

\* what does hold of the retries: a fetch that fails inside the refresh loop
\* (unsuccessful result or exception) puts the loop in a 300-second sleep whose only
\* continuation is the next fetch, and the loop ends only by cancellation; a failed
\* initial fetch in startup_event starts no refresh task and is never retried.
C9_LoopRetriesStartupDoesNot ==
    [][/\ (InLoop /\ n_fetch' = n_fetch + 1 /\ last_fetch' \in {"fail", "exc"}) =>
            (cred_pc' \in {"sleep_fail", "sleep_exc"} /\ sleep_for' = RetryDelay)
       /\ (cred_pc \in {"sleep_fail", "sleep_exc"} /\ cred_pc' = cred_pc) =>
            (sleep_for' = sleep_for)
       /\ (cred_pc \in {"sleep_fail", "sleep_exc"} /\ ~shutdown') =>
            (n_fetch' = n_fetch + 1 /\ InLoop')
       /\ (InLoop /\ ~InLoop') => (shutdown' /\ ~shutdown)
       /\ (cred_pc = "no_task") => (cred_pc' = "no_task" /\ n_fetch' = n_fetch)
      ]_vars

\* the initial fetch was served a bundle without its key id: startup_event has raised
\* and no refresh task exists
C9_Witness ==
    /\ cred_pc = "startup_raised"
    /\ last_fetch = "exc"
    /\ n_fetch = 1

\* C10: at most one session (a bridge that is initialized and not closed) exists on
\* the connection in every reachable state.
C10_AtMostOneSession == Cardinality({b \in Bridges : IsSession(b)}) <= 1

\* the second session of the connection is open, the first is closed
C10_Witness ==
    /\ Len(bridges) = 2
    /\ bridges[1].state = "Closed"
    /\ bridges[2].state = "Active"
    /\ bridges[2].is_active

\* the handler's forwarding task is the running task of the bridge it holds
TaskOfSessionRuns ==
    /\ TaskRunning(tasks, forward_task)
    /\ tasks[forward_task].bridge = stream_manager

\* C11 as claimed: whenever the handler holds a bridge whose is_active is true, the
\* forwarding task of that session is running; in no reachable state is the session
\* active and its forwarding task ended.
C11_Original == HasActiveStream => TaskOfSessionRuns

\* C11 as amended: while the handler holds an active bridge and the client has not
\* disconnected, the forwarding task of that bridge is running; and a forwarding
\* task that has ended by itself did so on a send that failed after the client left.
C11_TaskRunsWhileClientConnected ==
    /\ (HasActiveStream /\ ~client_gone) => TaskOfSessionRuns
    /\ \A t \in Tasks : tasks[t].status = "ended" => client_gone

\* the receive loop waits for a frame while the forwarding task of the active
\* session is between two frames of a split event
C11_Witness ==
    /\ HasActiveStream
    /\ ~client_gone
    /\ pc = "recv"
    /\ TaskOfSessionRuns
    /\ Len(tasks[forward_task].pending) = 1
    /\ Len(ws_out) = 1

\* the handler is back at the receive after a sessionEnd that closed a session
SessionEnded ==
    /\ pc = "recv"
    /\ data.kind = "sessionEnd"
    /\ Len(bridges) > 0
    /\ bridges[Len(bridges)].state = "Closed"

\* C12 as claimed: a sessionEnd handled while a session exists leaves the handler
\* with no bridge reference and no forwarding task, and the connection open.
C12_Original == SessionEnded => (stream_manager = 0 /\ forward_task = 0 /\ ~ws_closed)

\* C12 as amended: a sessionEnd handled while a session exists closes the bridge,
\* leaves no forwarding task running and clears the bridge reference; the task
\* reference is cleared too unless the task had already ended by itself (after a
\* client disconnect), in which case the reference to the finished task is kept.
\* The transport stays open and the handler is back at its receive: close()
\* returning is followed by nothing else, no frame is written, and the next
\* sessionStart creates a new bridge, the closed one untouched.
C12_SessionEndClears ==
    /\ [](SessionEnded =>
            /\ stream_manager = 0
            /\ \A b \in Bridges : ~IsSession(b)
            /\ \A t \in Tasks : tasks[t].status # "running"
            /\ forward_task # 0 => (tasks[forward_task].status = "ended" /\ client_gone)
            /\ ~ws_closed)
    /\ [][/\ (pc = "se_close" /\ pc' # "se_close") =>
                (pc' = "recv" /\ stream_manager' = 0 /\ ws_out' = ws_out
                 /\ ws_closed' = ws_closed /\ Len(bridges') = Len(bridges))
          /\ (SessionEnded /\ pc' = "ss_init") =>
                (/\ Len(bridges') = Len(bridges) + 1
                 /\ stream_manager' = Len(bridges')
                 /\ bridges'[stream_manager'] = InitBegin(NewBridge)
                 /\ \A b \in Bridges : bridges'[b] = bridges[b])
          ]_vars

\* a sessionEnd has closed the session of a connected client: the bridge is closed,
\* the task cancelled, both references cleared, the handler at its receive
C12_Witness ==
    /\ SessionEnded
    /\ ~client_gone
    /\ Len(bridges) = 1
    /\ bridges[1].close_calls = 1
    /\ Len(tasks) = 1 /\ tasks[1].status = "cancelled"
    /\ stream_manager = 0
    /\ forward_task = 0

\* the step is the handler's pass over the received frame msg
ReceiveFrame(msg) ==
    /\ pc = "recv"
    /\ ~client_gone
    /\ n_recv' = n_recv + 1
    /\ Handle(msg)

\* the handler waits for a frame and the connection has no session
NoSessionAtRecv == pc = "recv" /\ \A b \in Bridges : ~IsSession(b)

\* a frame that parses to an event other than sessionStart
WellFormedOther(msg) == Parse(msg) = "event" /\ msg.event.kind # "sessionStart"

\* C13 as claimed: while the connection has no session, a well-formed event other
\* than sessionStart invokes no bridge operation, writes no error frame, and leaves
\* the handler at its receive without a session.
C13_Original ==
    [][\A msg \in RouteFrames :
          (NoSessionAtRecv /\ WellFormedOther(msg) /\ ReceiveFrame(msg)) =>
              (bridges' = bridges /\ ws_out' = ws_out /\ pc' = "recv")
      ]_vars

\* C13 as amended: while the connection has no session, a well-formed event other
\* than sessionStart writes no error frame, starts no session and no task, and does
\* not end the handler; it invokes no bridge operation, except that a sessionEnd
\* received while the handler still holds the bridge of a failed sessionStart calls
\* close() on that bridge, and nothing else, before the reference is dropped.
C13_NoSessionEventsIgnored ==
    [][\A msg \in RouteFrames :
          (NoSessionAtRecv /\ WellFormedOther(msg) /\ ReceiveFrame(msg)) =>
              /\ ws_out' = ws_out
              /\ tasks' = tasks
              /\ forward_task' = forward_task
              /\ ~ws_closed'
              /\ IF stream_manager # 0 /\ msg.event.kind = "sessionEnd"
                 THEN /\ bridges' =
                            [bridges EXCEPT ![stream_manager].close_calls = @ + 1]
                      /\ bridges[stream_manager].state = "Created"
                      /\ pc' = "se_close"
                 ELSE /\ bridges' = bridges
                      /\ stream_manager' = stream_manager
                      /\ pc' = "recv"
      ]_vars

\* a sessionEnd with no sessionStart before it has been handled: nothing has happened
C13_Witness ==
    /\ pc = "recv"
    /\ n_recv = 1
    /\ data.kind = "sessionEnd"
    /\ bridges = <<>>
    /\ tasks = <<>>
    /\ ws_out = <<>>
    /\ stream_manager = 0
    /\ ~client_gone /\ ~ws_closed

\* a frame that parses to an event other than the two session-control events and
\* carries the fields the handler reads from it
DataEvent(msg) ==
    /\ Parse(msg) = "event"
    /\ msg.event.kind \notin {"sessionStart", "sessionEnd"}
    /\ ~FieldMissing(msg.event)

\* C14: while a session is active, an audioInput event is handed to add_audio_chunk
\* with its promptName, contentName and content and not to send_raw_event; every
\* other event that is not sessionStart or sessionEnd (promptStart and contentStart
\* too) is handed, as parsed, to one send_raw_event call and not to add_audio_chunk.
\* Nothing else reaches the backend: the events sent grow only by the event of the
\* send_raw_event call in progress, the audio queue only by a received audioInput.
C14_AudioQueuedOthersSent ==
    [][/\ \A msg \in RouteFrames :
            (HasActiveStream /\ DataEvent(msg) /\ ReceiveFrame(msg)) =>
                LET d == msg.event
                    before == bridges[stream_manager]
                    after == bridges'[stream_manager]
                IN  /\ stream_manager' = stream_manager
                    /\ after.sent = before.sent
                    /\ IF d.kind = "audioInput"
                       THEN /\ after.audio_queue =
                                  Append(before.audio_queue,
                                         [promptName |-> d.promptName,
                                          contentName |-> d.contentName,
                                          content |-> d.content])
                            /\ pc' = "recv"
                       ELSE /\ after.audio_queue = before.audio_queue
                            /\ pc' = "ev_send"
                            /\ data' = d
       /\ (pc = "ev_send" /\ pc' # "ev_send") =>
            /\ pc' = "recv"
            /\ bridges'[stream_manager].sent \in
                  {bridges[stream_manager].sent, Append(bridges[stream_manager].sent, data)}
            /\ bridges'[stream_manager].audio_queue = bridges[stream_manager].audio_queue
       /\ \A b \in Bridges :
            /\ bridges'[b].sent # bridges[b].sent =>
                  (pc \in {"ss_send", "ev_send"} /\ b = stream_manager
                   /\ data.kind # "audioInput")
            /\ bridges'[b].audio_queue # bridges[b].audio_queue =>
                  (pc = "recv" /\ b = stream_manager /\ data'.kind = "audioInput")
      ]_vars

\* sessionStart, promptStart, contentStart and audioInput have been handled: the
\* first three were sent, the names stored, the audio queued and not sent
C14_Witness ==
    /\ pc = "recv"
    /\ HasActiveStream
    /\ bridges[stream_manager].prompt_name = "p1"
    /\ bridges[stream_manager].audio_content_name = "c1"
    /\ bridges[stream_manager].audio_queue =
          <<[promptName |-> "p1", contentName |-> "c1", content |-> "base64"]>>
    /\ Len(bridges[stream_manager].sent) = 3
    /\ bridges[stream_manager].sent[2].kind = "promptStart"
    /\ bridges[stream_manager].sent[3].kind = "contentStart"

\* the step writes one error frame to a client that is there, and nothing to one
\* that is gone
ErrorFrameWritten ==
    IF client_gone
    THEN ws_out' = ws_out
    ELSE /\ Len(ws_out') = Len(ws_out) + 1
         /\ SubSeq(ws_out', 1, Len(ws_out)) = ws_out
         /\ ws_out'[Len(ws_out')].kind = "error"

\* the frame makes the loop body raise before its first suspension: an event object
\* without a key, or an event of the active session without a field that is read
RaisesOnReceive(msg) ==
    \/ Parse(msg) = "IndexError"
    \/ /\ Parse(msg) = "event"
       /\ msg.event.kind \notin {"sessionStart", "sessionEnd"}
       /\ HasActiveStream
       /\ FieldMissing(msg.event)

Cleanup == {"fin_close", "fin_ws", "done"}

\* C15: an error raised while one received event is processed (initialize_stream()
\* raising, send_raw_event() raising, a missing field) is caught: one error frame
\* is written if the client is there, nothing and no further error if it is not,
\* and the handler is back at its receive; the cleanup starts only from the
\* receive, never from the processing of an event, and the transport is closed
\* only by the cleanup.
C15_ErrorsStayInLoop ==
    [][/\ (pc = "ss_init" /\ bridges'[stream_manager].state = "Created") =>
            (ErrorFrameWritten /\ pc' = "recv")
       /\ (/\ pc \in {"ss_send", "ev_send"}
           /\ pc' # pc
           /\ bridges'[stream_manager].sent = bridges[stream_manager].sent) =>
            (ErrorFrameWritten /\ pc' = "recv")
       /\ \A msg \in RouteFrames :
            (RaisesOnReceive(msg) /\ ReceiveFrame(msg)) =>
                (ErrorFrameWritten /\ pc' = "recv" /\ bridges' = bridges
                 /\ stream_manager' = stream_manager /\ tasks' = tasks)
       /\ (pc \notin Cleanup /\ pc' \in Cleanup) => pc = "recv"
       /\ (ws_closed' # ws_closed) => pc = "fin_ws"
      ]_vars

\* a first sessionStart failed to initialize, a second succeeded, an audioInput
\* without content raised KeyError: two error frames, the session still active and
\* the handler at its receive
C15_Witness ==
    /\ pc = "recv"
    /\ ~ws_closed /\ ~client_gone
    /\ HasActiveStream
    /\ Len(ws_out) = 2
    /\ ws_out[1] = ErrorFrame("ConnectionError")
    /\ ws_out[2] = ErrorFrame("KeyError")
    /\ data.kind = "audioInput"

\* C16: a frame that json.loads rejects, or whose "body" string it rejects, writes
\* one error frame ("Invalid JSON format") if the client is there, calls nothing on
\* the bridge, leaves the bridge reference, the task reference, every bridge (its
\* session fields included) and every task as they were, and leaves the handler at
\* its receive.
C16_InvalidFrameReported ==
    [][\A msg \in RouteFrames :
          (Parse(msg) = "JSONDecodeError" /\ ReceiveFrame(msg)) =>
              /\ ws_out' = IF client_gone THEN ws_out
                           ELSE Append(ws_out, ErrorFrame("Invalid JSON format"))
              /\ bridges' = bridges
              /\ tasks' = tasks
              /\ stream_manager' = stream_manager
              /\ forward_task' = forward_task
              /\ pc' = "recv"
              /\ ws_closed' = ws_closed
      ]_vars

\* an active session with a stored prompt name has received a frame whose body is
\* not valid: one error frame, the session as it was
C16_Witness ==
    /\ pc = "recv"
    /\ HasActiveStream
    /\ bridges[stream_manager].prompt_name = "p1"
    /\ Len(bridges[stream_manager].sent) = 2
    /\ TaskOfSessionRuns
    /\ data = WrapperData
    /\ ws_out = <<ErrorFrame("Invalid JSON format")>>
    /\ n_recv = 3

\* C17: for every event whose serialized size is at most max_size, the limit itself
\* included, split_large_event returns a list of one element, the event itself,
\* and logs no warning.
C17_SmallEventReturnedAsIs ==
    (split_result.status # "none" /\ EventSize(response) <= max_size) =>
        (/\ split_result.status = "returned"
         /\ ~split_result.warned
         /\ Len(split_result.chunks) = 1
         /\ split_result.chunks[1] = response)

\* an event with content whose size is exactly max_size has come back alone
C17_Witness ==
    /\ split_result.status = "returned"
    /\ response.hasContent
    /\ EventSize(response) = max_size
    /\ split_result.chunks = <<response>>

\* C18: for every event larger than max_size whose payload has no content field,
\* split_large_event returns a list of one element, the event itself, and logs a
\* warning.
C18_NoContentReturnedWithWarning ==
    (/\ split_result.status # "none"
     /\ EventSize(response) > max_size
     /\ response.hasEvent
     /\ ~response.hasContent) =>
        (/\ split_result.status = "returned"
         /\ split_result.warned
         /\ split_result.chunks = <<response>>)

\* a usage event one byte over the limit has come back alone, with the warning
C18_Witness ==
    /\ split_result.status = "returned"
    /\ split_result.warned
    /\ response.kind = "usageEvent"
    /\ EventSize(response) = max_size + 1
    /\ split_result.chunks = <<response>>

\* x limited to the interval from lo to hi
Clamp(x, lo, hi) == IF x < lo THEN lo ELSE IF x > hi THEN hi ELSE x

\* C19: after a successful refresh whose bundle has an expiry, the loop is suspended
\* in a sleep of exactly clamp(seconds until expiry - 300, 60, 3600) seconds, and
\* after every successful refresh the sleep is between 60 and 3600 seconds, also for
\* credentials that have expired or expire far in the future; the next fetch is
\* made only when that sleep ends.
C19_SleepIsClampedExpiry ==
    /\ [](cred_pc = "sleep_ok" =>
            /\ sleep_for >= 60 /\ sleep_for <= 3600
            /\ imds_result.Expiration.present =>
                  sleep_for = Clamp(imds_result.Expiration.expires_in - 300, 60, 3600))
    /\ [][(cred_pc = "sleep_ok" /\ ~shutdown') =>
              (\/ n_fetch' = n_fetch + 1
               \/ cred_pc' = "sleep_ok" /\ sleep_for' = sleep_for)]_vars

\* credentials that had expired ten minutes before they were served: the loop
\* sleeps the minimum
C19_Witness ==
    /\ cred_pc = "sleep_ok"
    /\ last_fetch = "ok"
    /\ imds_result.Expiration.present
    /\ imds_result.Expiration.expires_in = 0 - 600
    /\ sleep_for = 60
    /\ n_fetch = 2

\* the environment holds the static key id and secret the process was started with
StaticHeld ==
    /\ environ.AWS_ACCESS_KEY_ID = StaticCred
    /\ environ.AWS_SECRET_ACCESS_KEY = StaticCred

\* C20: a process started with a static key id and secret never starts the refresh
\* task, never calls the metadata endpoint and never changes the three credential
\* values, up to and through shutdown.
C20_StaticCredentialsLeftAlone ==
    /\ [](StaticHeld =>
            /\ cred_pc \in {"startup", "local"}
            /\ n_fetch = 0
            /\ imds_result = NoImdsResult
            /\ last_fetch = "none")
    /\ [](cred_pc = "local" => StaticHeld)
    /\ [][StaticHeld => environ' = environ]_vars

\* a process started with static credentials has been shut down: no fetch was made
C20_Witness ==
    /\ StaticHeld
    /\ environ.AWS_SESSION_TOKEN = None
    /\ cred_pc = "local"
    /\ shutdown
    /\ n_fetch = 0

\* C21: a refresh attempt of the loop that fails, by an unsuccessful result or by an
\* exception, leaves the three credential values as they were before the attempt.
C21_Original ==
    [][(InLoop /\ n_fetch' = n_fetch + 1 /\ last_fetch' \in {"fail", "exc"}) =>
          environ' = environ]_vars

\* a refresh was served a bundle without its secret: the attempt raised, and the key
\* id is of the new bundle while the secret and the token are of the one before
C21_Witness ==
    /\ cred_pc = "sleep_exc"
    /\ last_fetch = "exc"
    /\ n_fetch >= 2
    /\ imds_result.SecretAccessKey = None
    /\ environ.AWS_ACCESS_KEY_ID = n_fetch
    /\ environ.AWS_SECRET_ACCESS_KEY = n_fetch - 1
    /\ environ.AWS_SESSION_TOKEN = n_fetch - 1

\* the bridge has been initialized: initialize_stream() has returned
Initialized(b) == bridges[b].state \in {"Active", "Closing", "Closed"}

\* C22: for every bridge, the first call the handler makes on it after
\* initialize_stream() is send_raw_event with the sessionStart event, and that is the
\* only sessionStart it is given; the call is made in the step in which
\* initialize_stream() returns and the forwarding task of that bridge is created, so
\* a bridge that has been called is initialized and has its task, and a bridge that
\* has a task is initialized.
C22_SessionStartSentFirst ==
    /\ [](\A b \in Bridges :
            /\ bridges[b].calls # <<>> =>
                  /\ bridges[b].calls[1] = [op |-> "send_raw_event", kind |-> "sessionStart"]
                  /\ \A i \in 2..Len(bridges[b].calls) :
                        bridges[b].calls[i].kind # "sessionStart"
                  /\ Initialized(b)
                  /\ \E t \in Tasks : tasks[t].bridge = b
            /\ \A t \in Tasks : tasks[t].bridge = b => Initialized(b)
            /\ Initialized(b) => bridges[b].calls # <<>>)
    /\ [][\A b \in Bridges :
            (bridges[b].calls = <<>> /\ bridges'[b].calls # <<>>) =>
                /\ pc = "ss_init" /\ pc' = "ss_send"
                /\ b = stream_manager
                /\ bridges[b].state = "StreamInitializing"
                /\ bridges'[b].state = "Active"
                /\ Len(tasks') = Len(tasks) + 1
                /\ tasks'[Len(tasks')].bridge = b
                /\ data.kind = "sessionStart"
          ]_vars

\* a session that was started and then given a promptStart and an audioInput
C22_Witness ==
    /\ HasActiveStream
    /\ TaskOfSessionRuns
    /\ Len(bridges[stream_manager].calls) = 3
    /\ bridges[stream_manager].calls[1].kind = "sessionStart"
    /\ bridges[stream_manager].calls[2].kind = "promptStart"
    /\ bridges[stream_manager].calls[3].op = "add_audio_chunk"
    /\ Len(bridges[stream_manager].sent) = 2

\* C23: the handler calls send_raw_event and add_audio_chunk only on a bridge that is
\* Active: every call is made on the bridge the handler holds, which is Active when
\* the call is made (initialized in that very step, for the sessionStart event) and
\* stays Active while the call is awaited; a bridge that is not initialized, failed
\* to initialize, is closing or is closed is never called.
C23_CallsOnlyOnActiveBridge ==
    /\ [](pc \in {"ss_send", "ev_send"} =>
            (stream_manager # 0 /\ bridges[stream_manager].state = "Active"))
    /\ [](\A b \in Bridges :
            bridges[b].state \in {"Created", "StreamInitializing"} =>
                (bridges[b].calls = <<>> /\ bridges[b].sent = <<>>
                 /\ bridges[b].audio_queue = <<>>))
    /\ [][\A b \in Bridges :
            (bridges'[b].calls # bridges[b].calls) =>
                /\ b = stream_manager
                /\ bridges'[b].state = "Active"
                /\ bridges'[b].is_active
                /\ bridges[b].state = "Active" \/ pc = "ss_init"
          ]_vars

\* a sessionStart failed, an event was dropped, a second sessionStart succeeded and an
\* event was sent: the failed bridge was never called
C23_Witness ==
    /\ n_recv = 4
    /\ Len(bridges) = 2
    /\ bridges[1].state = "Created"
    /\ bridges[1].calls = <<>>
    /\ bridges[1].close_calls = 1
    /\ bridges[2].state = "Active"
    /\ Len(bridges[2].calls) = 2
    /\ Len(bridges[2].sent) = 2

\* C24: while a session is active, handling a promptStart sets the session's
\* prompt_name to that event's promptName and leaves audio_content_name; handling a
\* contentStart of type AUDIO sets audio_content_name to that event's contentName
\* and leaves prompt_name; every other frame (a contentStart of another type too)
\* leaves both; and the two fields of a bridge change in no other step.
C24_NamesChangeOnlyOnTheirEvents ==
    [][/\ \A msg \in RouteFrames :
            (HasActiveStream /\ ReceiveFrame(msg) /\ pc' \notin Cleanup
             /\ stream_manager' = stream_manager) =>
                LET d == msg.event
                    before == bridges[stream_manager]
                    after == bridges'[stream_manager]
                    isEvent == Parse(msg) = "event" /\ ~FieldMissing(d)
                IN  /\ after.prompt_name =
                          IF isEvent /\ d.kind = "promptStart" THEN d.promptName
                          ELSE before.prompt_name
                    /\ after.audio_content_name =
                          IF isEvent /\ d.kind = "contentStart" /\ d.type = "AUDIO"
                          THEN d.contentName
                          ELSE before.audio_content_name
       /\ \A b \in Bridges :
            (\/ bridges'[b].prompt_name # bridges[b].prompt_name
             \/ bridges'[b].audio_content_name # bridges[b].audio_content_name) =>
                (pc = "recv" /\ b = stream_manager /\ bridges[b].is_active
                 /\ n_recv' = n_recv + 1 /\ data'.kind \in {"promptStart", "contentStart"})
      ]_vars

\* promptStart p1, contentStart of type TEXT and promptStart p2 have been handled:
\* the prompt name is the last one and no audio content name was stored
C24_Witness ==
    /\ HasActiveStream
    /\ pc = "recv"
    /\ n_recv = 4
    /\ bridges[stream_manager].prompt_name = "p2"
    /\ bridges[stream_manager].audio_content_name = Absent
    /\ Len(bridges[stream_manager].sent) = 4
    /\ bridges[stream_manager].sent[2].promptName = "p1"
    /\ bridges[stream_manager].sent[3].type = "TEXT"

\* the frames of the routing specification that are objects and not wrappers
PlainFrames == {msg \in RouteFrames : msg.json /\ ~msg.wrapped}

\* C25: a frame {"body": "<json-encoded inner>"} is handled as its inner frame: in
\* every state in which the handler receives, a step is the handling of an inner
\* frame exactly if it is the handling of that frame wrapped once, so both make the
\* same transition and the same bridge calls; and the event that the handler then
\* passes to send_raw_event is the inner envelope.
C25_WrappedHandledAsInner ==
    [][/\ \A msg \in PlainFrames :
            (pc = "recv" /\ ~client_gone /\ n_recv' = n_recv + 1) =>
                (Handle(Wrap(msg)) <=> Handle(msg))
       /\ \A msg \in PlainFrames :
            (ReceiveFrame(Wrap(msg)) /\ pc' = "ev_send") => data' = msg.event
       /\ (pc = "ev_send" /\ bridges'[stream_manager].sent # bridges[stream_manager].sent) =>
            bridges'[stream_manager].sent = Append(bridges[stream_manager].sent, data)
      ]_vars

\* a session has been given a text input, wrapped or not: the event the backend has
\* is the inner envelope
C25_Witness ==
    /\ pc = "recv"
    /\ n_recv = 2
    /\ HasActiveStream
    /\ Wrap(TextInputFrame) = WrappedTextInputFrame
    /\ bridges[stream_manager].sent = <<SessionStartFrame.event, WrappedTextInputFrame.event>>
    /\ bridges[stream_manager].calls[2] = [op |-> "send_raw_event", kind |-> "textInput"]

\* what is left for content in a chunk of the event, before the alignment
ContentRoom == MaxContentSize(max_size, EventSize([response EXCEPT !.content = <<>>]))

\* C26: for every event with a content field that is larger than max_size, the
\* events whose overhead and 100-byte margin leave no room for content included,
\* split_large_event raises nothing and returns at least one event, so that the
\* forwarding task has something to write.
C26_Original ==
    (/\ split_result.status # "none"
     /\ response.hasEvent
     /\ response.hasContent
     /\ EventSize(response) > max_size) =>
        /\ split_result.status = "returned"
        /\ Len(split_result.chunks) >= 1

\* an audio event with room for one to three characters a chunk: the room is
\* rounded down to zero and range() raises
C26_Witness ==
    /\ split_result.status = "raised"
    /\ max_size = ForwardMaxSize
    /\ response.kind = "audioOutput"
    /\ response.hasContent
    /\ EventSize(response) > max_size
    /\ ContentRoom \in 1..3

\* an event whose overhead alone is above the limit: range() is empty and the
\* result is the empty list
C26_EmptyResult ==
    /\ split_result.status = "returned"
    /\ split_result.chunks = <<>>
    /\ response.hasContent
    /\ ContentRoom < 0

\* the handler has finished tearing down the session of bridge b: b was created on
\* this connection and a sessionEnd or a replacing sessionStart has taken it out of
\* the handler's hands
TornDown(b) == b \in Bridges /\ b # stream_manager

\* C27: once the handling of a sessionEnd, or of a sessionStart that replaces a
\* session, has torn the old session down, nothing of the old session's output
\* queue is written to the client any more: no task of that bridge is running or
\* has chunks in hand, and no step adds a frame of that bridge to what the client
\* has received, whatever is still on the queue.
C27_NothingWrittenAfterTeardown ==
    /\ [](\A t \in Tasks :
            TornDown(tasks[t].bridge) =>
                (tasks[t].status # "running" /\ tasks[t].pending = <<>>))
    /\ [][\A b \in Bridges : TornDown(b) => Forwarded(b)' = Forwarded(b)]_vars

\* a session has been ended after one of its frames was written and with an event
\* still on its output queue
C27_Witness ==
    \E b \in Bridges :
        /\ TornDown(b)
        /\ pc = "recv"
        /\ bridges[b].state = "Closed"
        /\ bridges[b].output_queue # <<>>
        /\ Len(Forwarded(b)) >= 1
        /\ \E t \in Tasks : tasks[t].bridge = b /\ tasks[t].status = "cancelled"

\* the forwarding tasks that have not ended and have not been cancelled
RunningTasks == {t \in Tasks : tasks[t].status = "running"}

\* C28: at every moment at most one forwarding task of the connection is running,
\* it is the task the handler refers to and its bridge is the bridge the handler
\* holds; and an event leaves the output queue of the held bridge only, never that
\* of a bridge which has been replaced or ended.
C28_OneTaskOnHeldBridge ==
    /\ [](/\ Cardinality(RunningTasks) <= 1
          /\ \A t \in RunningTasks :
                /\ t = forward_task
                /\ tasks[t].bridge = stream_manager)
    /\ [][\A b \in Bridges :
            Len(bridges'[b].output_queue) < Len(bridges[b].output_queue) =>
                /\ b = stream_manager
                /\ \E t \in RunningTasks : tasks[t].bridge = b /\ tasks'[t].pending # <<>>
         ]_vars

\* a session has replaced another: the first task is cancelled, the second runs on
\* the second bridge and has taken an event from its queue and written it
C28_Witness ==
    /\ Len(tasks) = 2
    /\ tasks[1].status = "cancelled"
    /\ tasks[1].bridge = 1
    /\ RunningTasks = {2}
    /\ stream_manager = 2
    /\ forward_task = 2
    /\ bridges[2].n_emitted = 1
    /\ bridges[2].output_queue = <<>>
    /\ Len(Forwarded(2)) >= 1

\* the chunks of event seq of bridge b that the client has been sent
ChunksWritten(b, seq) ==
    LET OfEvent(f) == f.bridge = b /\ f.seq = seq
    IN  SelectSeq(ws_out, OfEvent)

\* C29: when a write of the forwarding task fails, the chunks of that event which
\* are left are not sent and the error stays in the task: nothing is written, the
\* queue and the handler are untouched.  If the message has neither 'closed' nor
\* 'disconnect' the task is still running and takes the next queued event; if it has
\* one of them the task has ended.  A task is never in another state than running,
\* ended or cancelled.
C29_WriteErrorsStayInTask ==
    /\ [](\A t \in Tasks : tasks[t].status \in {"running", "ended", "cancelled"})
    /\ [][\A t \in Tasks : \A error_str \in ErrorStrs :
            SendRaises(t, error_str) =>
                /\ tasks'[t].pending = <<>>
                /\ ws_out' = ws_out
                /\ bridges' = bridges
                /\ pc' = pc /\ stream_manager' = stream_manager /\ forward_task' = forward_task
                /\ error_str = "other" => tasks'[t].status = "running"
                /\ error_str \in {"closed", "disconnect"} => tasks'[t].status = "ended"
         ]_vars
    /\ [][\A t \in Tasks :
            (tasks[t].status = "running" /\ tasks'[t].status = "running"
             /\ tasks[t].pending = <<>> /\ tasks'[t].pending # <<>>) =>
                LET b == tasks[t].bridge
                IN  /\ bridges[b].output_queue # <<>>
                    /\ tasks'[t].pending[1].seq = Head(bridges[b].output_queue).seq
                    /\ bridges'[b].output_queue = Tail(bridges[b].output_queue)
         ]_vars

\* the second chunk of an event was not written after the client had gone, and the
\* task, still running, has the next event in hand
C29_Witness ==
    \E t \in Tasks :
        /\ tasks[t].status = "running"
        /\ client_gone
        /\ Len(ChunksWritten(tasks[t].bridge, 1)) = 1
        /\ ChunksWritten(tasks[t].bridge, 1)[1].kind = "audioOutput"
        /\ tasks[t].pending # <<>>
        /\ tasks[t].pending[1].seq = 2

\* a write failed on a closed connection and the task has ended by itself
C29_Ended ==
    \E t \in Tasks :
        /\ tasks[t].status = "ended"
        /\ client_gone
        /\ Len(ChunksWritten(tasks[t].bridge, 1)) = 1
        /\ bridges[tasks[t].bridge].output_queue # <<>>

\* the frames of the routing specification, and each of them wrapped once
RouteFramesAndWrapped == RouteFrames \cup {Wrap(msg) : msg \in RouteFrames}

\* the session state of the handler: what it holds, every bridge and every task
SessionState == <<stream_manager, forward_task, bridges, tasks>>

\* C30: a frame that parses, its "body" unwrapped if it has one, to data without a
\* top-level "event" is dropped: no error frame is written, no bridge operation is
\* invoked, the session state is as before and the handler is at the receive of the
\* next frame; in every session state.
C30_NoEventFrameDropped ==
    [][\A msg \in RouteFramesAndWrapped :
          (Parse(msg) = "no_event" /\ ReceiveFrame(msg)) =>
              /\ ws_out' = ws_out
              /\ SessionState' = SessionState
              /\ pc' = "recv"
      ]_vars

\* a frame without "event" has been dropped in an open session, which has had the
\* sessionStart and nothing else
C30_Witness ==
    /\ pc = "recv"
    /\ data = NoEventData
    /\ n_recv = 2
    /\ HasActiveStream
    /\ TaskRunning(tasks, forward_task)
    /\ bridges[stream_manager].calls = <<[op |-> "send_raw_event", kind |-> "sessionStart"]>>
    /\ ws_out = <<>>
    /\ Parse(NoEventFrame) = "no_event" /\ Parse(Wrap(NoEventFrame)) = "no_event"
    /\ Parse(BodyNotTextFrame) # "no_event"

\* the same without a session, after a failed sessionStart and after a sessionEnd
C30_WitnessNoSession == pc = "recv" /\ data = NoEventData /\ stream_manager = 0 /\ bridges = <<>>

C30_WitnessFailedInit ==
    /\ pc = "recv" /\ data = NoEventData
    /\ stream_manager # 0 /\ bridges[stream_manager].state = "Created"

C30_WitnessEnded ==
    /\ pc = "recv" /\ data = NoEventData
    /\ stream_manager = 0 /\ Len(bridges) = 1 /\ bridges[1].state = "Closed"

\* the echo server is not in the middle of answering a frame
EchoBetweenFrames == echo_pc \in {"receive_text", "receive_bytes", "done"}

\* C31: the echo server answers every frame it receives, text or binary in any mix,
\* with one frame of the same type and payload, in the order received and before it
\* reads the next: what it has written is always the beginning of what it has
\* received, and while the connection is open and it is not answering a frame it
\* has written all that it has received.
C31_Original ==
    /\ Len(echo_sent) <= Len(echo_received)
    /\ echo_sent = SubSeq(echo_received, 1, Len(echo_sent))
    /\ (echo_open /\ EchoBetweenFrames) => echo_sent = echo_received

\* the only frame of the connection, a binary one, has been taken by receive_text():
\* nothing is written and the server waits in receive_bytes() for another frame
C31_Witness ==
    /\ echo_open
    /\ echo_pc = "receive_bytes"
    /\ echo_inbox = <<>>
    /\ echo_received = <<EchoFrame("binary", "a")>>
    /\ echo_sent = <<>>

\* a binary frame and then a text frame: both are taken, neither is answered, and
\* the handler has returned with the client still connected
C31_HandlerLeft ==
    /\ echo_open
    /\ echo_pc = "done"
    /\ Len(echo_received) = 2
    /\ echo_received[2].type = "text"
    /\ echo_sent = <<>>

\* of two binary frames the second one only is answered
C31_SecondEchoed ==
    /\ echo_open
    /\ echo_pc = "receive_text"
    /\ echo_received = <<EchoFrame("binary", "a"), EchoFrame("binary", "b")>>
    /\ echo_sent = <<EchoFrame("binary", "b")>>

\* what does hold: on a connection that has carried text frames only, every frame
\* has its echo before the next is read
C31_TextFramesEchoed ==
    (/\ echo_open
     /\ EchoBetweenFrames
     /\ \A i \in 1..Len(echo_received) : echo_received[i].type = "text") =>
        echo_sent = echo_received

====
